---- MODULE Spec2Model ----
(***************************************************************************)
(* GraphWithLoadingState (components/analytics/graph-with-loading-state):  *)
(* one instance of the component, as a state machine.                      *)
(*                                                                         *)
(* React semantics used by the model:                                      *)
(*  - a render evaluates the function body (useState, useMemo, the JSX);   *)
(*  - the useEffect of a render whose dependencies changed is passive: it  *)
(*    runs after the commit, as a step of its own (RunEffects), and in any *)
(*    case before the next render of the component; its cleanup runs right *)
(*    before it, or after an unmount;                                      *)
(*  - a setInterval callback is a task of the event loop: it may run       *)
(*    between a commit and the passive effects of that commit;             *)
(*  - a state setter called on a mounted component causes a re-render, on  *)
(*    an unmounted one it does nothing;                                    *)
(*  - a render that throws tears the component down.                       *)
(*                                                                         *)
(* Numbers: a sample's value is kept multiplied by 10, so that             *)
(* Math.floor(Math.random() * 10) / 10 + 1 is the integer 10 + d, d a      *)
(* decimal digit.  Time is measured in timer periods: the clock reads the  *)
(* number of ticks so far.                                                 *)
(***************************************************************************)
EXTENDS Integers, Sequences, FiniteSets, TLC

\* ---- bounds of the model ----
MaxLimit == 2    \* the limit prop ranges over 0..MaxLimit
MaxLen == 3      \* a real series has at most MaxLen samples
MaxTicks == 3    \* the timers fire at most MaxTicks times altogether
MaxTimers == 2   \* at most MaxTimers intervals are armed at once

VARIABLES
    phase,             \* "init" | "mounted" | "unmounted" | "crashed"
    props,             \* the props of the latest render
    loadingStateData,  \* the useState cell
    data,              \* the useMemo value of the latest render
    timers,            \* armed intervals: handle -> closure state
    interval,          \* the handle the pending cleanup will clear, 0 if none
    effectPending,     \* a passive effect (or cleanup) waits to run
    error,             \* "none" | "select" | "ticks": where a render threw
    suppliedResult,    \* query.data.result as the query adapter supplied it
    ticks,             \* number of timer firings
    regens,            \* number of setLoadingStateData calls
    lastTick,          \* the interval callback the latest step ran, if any
    firstRender        \* the latest render is the first one

vars == <<phase, props, loadingStateData, data, timers, interval,
          effectPending, error, suppliedResult, ticks, regens, lastTick,
          firstRender>>

\* ---- values ----

Min(a, b) == IF a < b THEN a ELSE b
Max(a, b) == IF a > b THEN a ELSE b

\* real samples: distinct timestamps, values apart from the synthetic ones
RealSample(i) == [timestamp |-> 0 - i, value |-> 100 * i]

\* the real series a query can hold: n samples in chronological order
RealSeries == {[i \in 1..n |-> RealSample(i)] : n \in 0..MaxLen}

\* what the query adapter can report (query.data absent: hasData = FALSE)
QuerySet ==
    {[isLoading |-> l, hasData |-> TRUE, result |-> r] :
        l \in BOOLEAN, r \in RealSeries}
    \cup
    {[isLoading |-> l, hasData |-> FALSE, result |-> <<>>] : l \in BOOLEAN}

\* the configuration a parent can pass
ConfigSet ==
    [limit : 0..MaxLimit, reverse : BOOLEAN, startEndOnly : BOOLEAN]

MakeProps(q, c) ==
    [isLoading |-> q.isLoading, hasData |-> q.hasData, result |-> q.result,
     limit |-> c.limit, reverse |-> c.reverse, startEndOnly |-> c.startEndOnly]

\* the outcomes of Math.floor(Math.random() * 10) the model draws
Digits == {0, 9}

NoProps ==
    [isLoading |-> FALSE, hasData |-> FALSE, result |-> <<>>, limit |-> 0,
     reverse |-> FALSE, startEndOnly |-> FALSE]

NoTimers == [h \in {} |-> 0]

NoTick ==
    [iteration |-> 0 - 1, limit |-> 0, armedAt |-> 0, afterLoaded |-> FALSE,
     len |-> 0, stale |-> FALSE, mounted |-> FALSE]

\* ---- generateFakeData ----

\* iteration % 2 ? (i % 2 ? 3 : 1) : i % 2 ? 1 : 3
Multiplier(iteration, i) ==
    IF iteration % 2 # 0
    THEN (IF i % 2 # 0 THEN 3 ELSE 1)
    ELSE (IF i % 2 # 0 THEN 1 ELSE 3)

GenerateOneTooMany(iteration, elements, now) ==
    {[k \in 1..(elements + 1) |->
        [timestamp |-> now, value |-> (10 + d[k]) * Multiplier(iteration, k - 1)]] :
        d \in [1..(elements + 1) -> Digits]}

\* the series generateFakeData(iteration, elements) can return at time now
GenerateFakeData(iteration, elements, now) ==
    {[k \in 1..elements |->
        [timestamp |-> now, value |-> (10 + d[k]) * Multiplier(iteration, k - 1)]] :
        d \in [1..elements -> Digits]}

\* ---- Array.prototype.slice, Array.prototype.reverse ----

RelativeIndex(x, len) == IF x < 0 THEN Max(len + x, 0) ELSE Min(x, len)

ArraySliceShort(a, start, end) ==
    LET k == RelativeIndex(start, Len(a))
        final == RelativeIndex(end - 1, Len(a))
    IN [j \in 1..Max(final - k, 0) |-> a[k + j]]

ArraySlice(a, start, end) ==
    LET k == RelativeIndex(start, Len(a))
        final == RelativeIndex(end, Len(a))
    IN [j \in 1..Max(final - k, 0) |-> a[k + j]]

\* swaps a[lower] and a[len - 1 - lower] (0-based) while lower < floor(len / 2)
RECURSIVE ReverseFrom(_, _)
ReverseFrom(a, lower) ==
    IF lower >= Len(a) \div 2 THEN a
    ELSE LET upper == Len(a) - 1 - lower
             swapped == [a EXCEPT ![lower + 1] = a[upper + 1],
                                  ![upper + 1] = a[lower + 1]]
         IN ReverseFrom(swapped, lower + 1)

ArrayReverse(a) == ReverseFrom(a, 0)

\* ---- the useMemo callback ----

QueryResultUnchecked(p) ==
    IF p.hasData
    THEN [threw |-> FALSE, defined |-> TRUE, value |-> p.result]
    ELSE [threw |-> TRUE, defined |-> FALSE, value |-> <<>>]

\* query.data?.result
QueryResult(p) ==
    IF p.hasData
    THEN [threw |-> FALSE, defined |-> TRUE, value |-> p.result]
    ELSE [threw |-> FALSE, defined |-> FALSE, value |-> <<>>]

SelectReversingInPlace(p, lsd) ==
    LET r == QueryResult(p)
    IN IF r.threw THEN [threw |-> TRUE, data |-> <<>>, result |-> p.result]
       ELSE IF p.isLoading \/ ~r.defined
       THEN [threw |-> FALSE, data |-> lsd, result |-> p.result]
       ELSE IF p.reverse
       THEN [threw |-> FALSE,
             data |-> ArraySlice(ArrayReverse(r.value), 0, p.limit),
             result |-> ArrayReverse(r.value)]
       ELSE [threw |-> FALSE, data |-> ArraySlice(r.value, 0, p.limit),
             result |-> p.result]

SelectOnlyWhenNoData(p, lsd) ==
    LET r == QueryResult(p)
    IN IF r.threw THEN [threw |-> TRUE, data |-> <<>>, result |-> p.result]
       ELSE IF p.isLoading /\ ~r.defined
       THEN [threw |-> FALSE, data |-> lsd, result |-> p.result]
       ELSE LET copiedData == ArraySlice(r.value, 0, p.limit)
            IN [threw |-> FALSE,
                data |-> IF p.reverse THEN ArrayReverse(copiedData) ELSE copiedData,
                result |-> p.result]

\* data: the value returned; result: query.data.result after the call
SelectData(p, lsd) ==
    LET r == QueryResult(p)
    IN IF r.threw THEN [threw |-> TRUE, data |-> <<>>, result |-> p.result]
       ELSE IF p.isLoading \/ ~r.defined
       THEN [threw |-> FALSE, data |-> lsd, result |-> p.result]
       ELSE LET copiedData == ArraySlice(r.value, 0, p.limit)
            IN [threw |-> FALSE,
                data |-> IF p.reverse THEN ArrayReverse(copiedData) ELSE copiedData,
                result |-> p.result]

MemoDeps(p, lsd) ==
    <<p.limit, lsd, p.hasData, p.result, p.isLoading, p.reverse>>

\* ---- the ticks prop of the XAxis ----

\* data[i]["timestamp"] with i 0-based: reading a property of undefined throws
ReadsUndefined(d, i) == ~(0 <= i /\ i < Len(d))

TicksThrows(p, d) ==
    p.startEndOnly /\ (ReadsUndefined(d, 0) \/ ReadsUndefined(d, Len(d) - 1))

\* ---- one render of the function body ----

\* first: the mount; oldDeps: the useMemo dependencies of the previous render
Render(first, p, lsd, oldDeps, oldData) ==
    LET sel == IF ~first /\ MemoDeps(p, lsd) = oldDeps
               THEN [threw |-> FALSE, data |-> oldData, result |-> p.result]
               ELSE SelectData(p, lsd)
    IN [data |-> sel.data,
        result |-> sel.result,
        error |-> IF sel.threw THEN "select"
                  ELSE IF TicksThrows(p, sel.data) THEN "ticks"
                  ELSE "none"]

\* ---- the effect ----

CleanupLeaking(tm, iv) == tm

\* () => clearInterval(interval)
Cleanup(tm, iv) == [h \in DOMAIN tm \ {iv} |-> tm[h]]

FreshHandle(tm) == CHOOSE h \in 1..(MaxTimers + 1) :
    h \notin DOMAIN tm /\ \A g \in 1..(h - 1) : g \in DOMAIN tm

NewTimerResuming(limit, tk, afterLoaded) ==
    [iteration |-> tk, limit |-> limit, armedAt |-> tk,
     afterLoaded |-> afterLoaded]

\* let iteration = 0, and limit as the closure captures it; armedAt: the
\* number of ticks before it was armed; afterLoaded: the effect that ran before
\* this one, if any, armed no timer (it saw isLoading false)
NewTimer(limit, tk, afterLoaded) ==
    [iteration |-> 0, limit |-> limit, armedAt |-> tk,
     afterLoaded |-> afterLoaded]

\* the effect body, run against the props of the committed render
EffectBody(p, tm, tk, prevInterval) ==
    IF ~p.isLoading
    THEN [timers |-> tm, interval |-> 0]
    ELSE LET h == FreshHandle(tm)
         IN [timers |-> (h :> NewTimer(p.limit, tk, prevInterval = 0)) @@ tm,
             interval |-> h]

\* the pending passive effect, if any: cleanup of the previous one, then the body
Flush(pending, ph, p, tm, iv, tk) ==
    IF ~pending THEN [timers |-> tm, interval |-> iv]
    ELSE LET cleaned == IF iv = 0 THEN tm ELSE Cleanup(tm, iv)
         IN IF ph = "mounted"
            THEN EffectBody(p, cleaned, tk, iv)
            ELSE [timers |-> cleaned, interval |-> 0]

\* ---- the state machine ----

Init ==
    /\ phase = "init"
    /\ props = NoProps
    /\ loadingStateData = <<>>
    /\ data = <<>>
    /\ timers = NoTimers
    /\ interval = 0
    /\ effectPending = FALSE
    /\ error = "none"
    /\ suppliedResult = <<>>
    /\ ticks = 0
    /\ regens = 0
    /\ lastTick = NoTick
    /\ firstRender = FALSE

\* the first render: useState(generateFakeData(0, limit)), useMemo, the JSX
Mount(q, c) ==
    /\ phase = "init"
    /\ \E fake \in GenerateFakeData(0, c.limit, ticks) :
         LET p == MakeProps(q, c)
             r == Render(TRUE, p, fake, <<>>, <<>>)
         IN /\ loadingStateData' = fake
            /\ data' = r.data
            /\ props' = [p EXCEPT !.result = r.result]
            /\ error' = r.error
            /\ phase' = IF r.error = "none" THEN "mounted" ELSE "crashed"
            /\ effectPending' = (r.error = "none")
    /\ suppliedResult' = q.result
    /\ firstRender' = TRUE
    /\ UNCHANGED <<timers, interval, ticks, regens, lastTick>>

\* the component is rendered again, with props p
Rerender(p) ==
    /\ Cardinality(DOMAIN timers) < MaxTimers
    /\ LET f == Flush(effectPending, phase, props, timers, interval, ticks)
           r == Render(FALSE, p, loadingStateData,
                       MemoDeps(props, loadingStateData), data)
       IN /\ timers' = f.timers
          /\ interval' = f.interval
          /\ data' = r.data
          /\ props' = [p EXCEPT !.result = r.result]
          /\ error' = r.error
          /\ phase' = IF r.error = "none" THEN "mounted" ELSE "crashed"
          /\ effectPending' = \/ r.error # "none"
                              \/ p.isLoading # props.isLoading
                              \/ p.limit # props.limit
    /\ suppliedResult' = p.result
    /\ firstRender' = FALSE
    /\ lastTick' = NoTick
    /\ UNCHANGED <<loadingStateData, ticks, regens>>

\* the query adapter reports a new state
QueryChange(q) ==
    /\ phase = "mounted"
    /\ Rerender([props EXCEPT !.isLoading = q.isLoading,
                              !.hasData = q.hasData, !.result = q.result])

\* the parent passes a new limit, reverse or startEndOnly
ConfigChange(c) ==
    /\ phase = "mounted"
    /\ Rerender([props EXCEPT !.limit = c.limit, !.reverse = c.reverse,
                              !.startEndOnly = c.startEndOnly])

\* the passive effect of the latest commit runs
RunEffects ==
    /\ effectPending
    /\ Cardinality(DOMAIN timers) < MaxTimers
    /\ LET f == Flush(TRUE, phase, props, timers, interval, ticks)
       IN /\ timers' = f.timers
          /\ interval' = f.interval
    /\ effectPending' = FALSE
    /\ lastTick' = NoTick
    /\ UNCHANGED <<phase, props, loadingStateData, data, error,
                   suppliedResult, ticks, regens, firstRender>>

\* interval h fires: setLoadingStateData(generateFakeData(iteration, limit));
\* iteration++; and, the component being mounted, the render that follows
Tick(h) ==
    /\ h \in DOMAIN timers
    /\ ticks < MaxTicks
    /\ Cardinality(DOMAIN timers) < MaxTimers
    /\ \E fake \in GenerateFakeData(timers[h].iteration, timers[h].limit, ticks) :
         LET t == timers[h]
             fired == [timers EXCEPT ![h].iteration = t.iteration + 1]
             tick == [iteration |-> t.iteration, limit |-> t.limit,
                      armedAt |-> t.armedAt, afterLoaded |-> t.afterLoaded,
                      len |-> Len(fake), stale |-> effectPending,
                      mounted |-> (phase = "mounted")]
         IN /\ lastTick' = tick
            /\ IF phase = "mounted"
               THEN LET f == Flush(effectPending, phase, props, fired,
                                   interval, ticks + 1)
                        r == Render(FALSE, props, fake,
                                    MemoDeps(props, loadingStateData), data)
                    IN /\ loadingStateData' = fake
                       /\ timers' = f.timers
                       /\ interval' = f.interval
                       /\ data' = r.data
                       /\ props' = [props EXCEPT !.result = r.result]
                       /\ error' = r.error
                       /\ phase' = IF r.error = "none" THEN "mounted" ELSE "crashed"
                       /\ effectPending' = (r.error # "none")
                       /\ firstRender' = FALSE
               ELSE /\ timers' = fired
                    /\ UNCHANGED <<loadingStateData, interval, data, props,
                                   error, phase, effectPending, firstRender>>
    /\ ticks' = ticks + 1
    /\ regens' = regens + 1
    /\ UNCHANGED suppliedResult

\* the parent removes the component
Unmount ==
    /\ phase = "mounted"
    /\ Cardinality(DOMAIN timers) < MaxTimers
    /\ LET f == Flush(effectPending, phase, props, timers, interval, ticks)
       IN /\ timers' = f.timers
          /\ interval' = f.interval
    /\ phase' = "unmounted"
    /\ effectPending' = TRUE
    /\ lastTick' = NoTick
    /\ UNCHANGED <<props, loadingStateData, data, error, suppliedResult,
                   ticks, regens, firstRender>>

Next ==
    \/ \E q \in QuerySet, c \in ConfigSet : Mount(q, c)
    \/ \E q \in QuerySet : QueryChange(q)
    \/ \E c \in ConfigSet : ConfigChange(c)
    \/ RunEffects
    \/ \E h \in 1..MaxTimers : Tick(h)
    \/ Unmount

Spec == Init /\ [][Next]_vars

\* ---- what the claims speak of ----

\* a sample whose multiplier is 3: 3 * (10 + d) >= 30 > 10 + d
High(v) == v.value >= 30

\* the 0-based indices of the samples of s whose multiplier is 3
Shape(s) == {i \in 0..(Len(s) - 1) : High(s[i + 1])}

\* no sample of s is a real one
IsSynthetic(s) == \A k \in 1..Len(s) : s[k].value < 100

\* on the indices both have, a has multiplier 3 exactly where b has 1
OppositeShape(a, b) ==
    \A k \in 1..Min(Len(a), Len(b)) : High(a[k]) # High(b[k])

Loaded == phase = "mounted" /\ ~props.isLoading /\ props.hasData

Ticked == lastTick # NoTick

\* C1: once the effect of the latest change has run, exactly one timer is
\* armed (the one the cleanup holds) if the component is mounted and
\* isLoading is true, and none otherwise; and a tick that fires with no effect
\* pending fires on a mounted component whose isLoading is true.
C1_TimerArmedIffLoading ==
    /\ ~effectPending =>
          IF phase = "mounted" /\ props.isLoading
          THEN Cardinality(DOMAIN timers) = 1 /\ interval \in DOMAIN timers
          ELSE DOMAIN timers = {}
    /\ (Ticked /\ ~lastTick.stale) => (lastTick.mounted /\ props.isLoading)

C1_Witness ==
    /\ phase = "unmounted"
    /\ ~effectPending
    /\ ticks >= 1
    /\ props.isLoading
    /\ DOMAIN timers = {}

\* C2 (as claimed): whenever isLoading is true the displayed series is the
\* placeholder series and its length is the current limit prop.
C2_LoadingShowsLimitPlaceholders ==
    (phase = "mounted" /\ props.isLoading) =>
        /\ data = loadingStateData
        /\ IsSynthetic(data)
        /\ Len(data) = props.limit

\* C3 (as claimed): on the first render the displayed series is the synthetic
\* placeholder series, whatever the query's state.
C3_FirstRenderIsPlaceholder ==
    (firstRender /\ phase = "mounted") =>
        (data = loadingStateData /\ IsSynthetic(data))

\* C3 (amended): on the first render the displayed series is the placeholder
\* series generated with iteration 0 and limit elements if isLoading is true or
\* data.result is absent; for a query already resolved at mount it is the first
\* limit elements of the real series, reversed if reverse is set.
C3_FirstRenderSelects ==
    (firstRender /\ phase = "mounted") =>
        IF props.isLoading \/ ~props.hasData
        THEN /\ data = loadingStateData
             /\ IsSynthetic(data)
             /\ Len(data) = props.limit
             /\ Shape(data) = {i \in 0..(props.limit - 1) : i % 2 = 0}
        ELSE LET n == Min(props.limit, Len(suppliedResult))
             IN /\ Len(data) = n
                /\ \A k \in 1..n :
                      data[k] = suppliedResult[IF props.reverse THEN n + 1 - k ELSE k]

C3_Witness ==
    /\ firstRender
    /\ phase = "mounted"
    /\ ~props.isLoading
    /\ props.hasData
    /\ Len(data) >= 1
    /\ data # loadingStateData

\* C4: when isLoading is false and data.result is present, the displayed
\* series has min(limit, L) elements and, reverse not set, they are the first
\* min(limit, L) elements of the real series, in its order.
C4_WindowIsPrefix ==
    Loaded =>
        /\ Len(data) = Min(props.limit, Len(suppliedResult))
        /\ ~props.reverse => \A k \in 1..Len(data) : data[k] = suppliedResult[k]

C4_Witness ==
    /\ Loaded
    /\ ~props.reverse
    /\ props.limit >= 2
    /\ Len(suppliedResult) > props.limit
    /\ Len(data) = props.limit

\* C5: with reverse set the displayed series is the first min(limit, L)
\* elements of the real series in reverse order, and the real series the query
\* holds is, after every operation, the one the query adapter supplied.
C5_ReverseOfPrefix ==
    /\ props.result = suppliedResult
    /\ (Loaded /\ props.reverse) =>
          LET n == Min(props.limit, Len(suppliedResult))
          IN /\ Len(data) = n
             /\ \A k \in 1..n : data[k] = suppliedResult[n + 1 - k]

C5_Witness ==
    /\ Loaded
    /\ props.reverse
    /\ props.limit >= 2
    /\ Len(suppliedResult) > props.limit
    /\ data[1] = suppliedResult[props.limit]
    /\ ticks >= 1

C8_ShortSeriesGivesEmpty ==
    /\ error # "select"
    /\ (Loaded /\ Len(suppliedResult) < props.limit) => data = <<>>

\* C8 (amended): the selection never throws, and when the real series has
\* fewer than limit elements it is the whole real series (all L elements,
\* reversed if reverse is set), empty only when the real series is.
C8_ShortSeriesGivesWhole ==
    /\ error # "select"
    /\ (Loaded /\ Len(suppliedResult) < props.limit) =>
          /\ Len(data) = Len(suppliedResult)
          /\ {data[k] : k \in 1..Len(data)} =
                {suppliedResult[k] : k \in 1..Len(suppliedResult)}
          /\ (data = <<>>) = (suppliedResult = <<>>)

C8_Witness ==
    /\ Loaded
    /\ Len(suppliedResult) >= 1
    /\ Len(suppliedResult) < props.limit
    /\ Len(data) = Len(suppliedResult)

\* C9 (as claimed): every tick that fires while the component is mounted and
\* loading, no effect pending, replaces the placeholder series by one of the
\* opposite shape, the first tick after mount included.
C9_ShapeAlternatesEveryTick ==
    [][(lastTick' # NoTick /\ phase = "mounted" /\ props.isLoading
            /\ ~effectPending)
          => OppositeShape(loadingStateData, loadingStateData')]_vars

\* C10 (as claimed): no render throws, whatever the displayed series.
C10_RenderNeverThrows == error = "none"

====
